---- MODULE Spec2Model ----
(***************************************************************************)
(* Model of scripts/create-icon.py: the import guard, main() and           *)
(* create_icon().  One run of the script is one behaviour: the state is    *)
(* the script's position (pc), its locals, what it has printed, the file   *)
(* system it reads and writes, and the file handles Pillow holds for it.   *)
(* Pillow and the file system are the environment: each library call       *)
(* either completes or raises, chosen with \E.  print() to stdout is       *)
(* taken to succeed.                                                       *)
(***************************************************************************)
EXTENDS Integers, Sequences, FiniteSets, TLC

VARIABLES pc, pillow, argv, fs, png_path, ico_path, img, icon_images,
          saveCalls, exc, ret, out, exitCode, srcHandle, dstHandle,
          decodeTried, uncaught, raisedAt

vars == <<pc, pillow, argv, fs, png_path, ico_path, img, icon_images,
          saveCalls, exc, ret, out, exitCode, srcHandle, dstHandle,
          decodeTried, uncaught, raisedAt>>

\* ---------------------------------------------------------------- bounds

\* Largest number of positional command-line arguments a run is given.
MaxArgs == 2

\* ------------------------------------------------------------- constants

\* sizes, create_icon line 21.
sizes == << <<256, 256>>, <<128, 128>>, <<64, 64>>, <<48, 48>>, <<32, 32>>, <<16, 16>> >>

\* __file__ of the script, as path components.
ScriptFile == <<"home", "repo", "scripts", "create-icon.py">>

\* Command-line words a run may be given, as "/"-separated components.
RawArgs == { <<"in.png">>, <<".", "in.png">>, <<"out.ico">> }

\* ----------------------------------------------------------------- paths

\* pathlib: Path.parent drops the last component.
Parent(p) == SubSeq(p, 1, Len(p) - 1)

\* pathlib: p / name.
Join(p, name) == Append(p, name)

\* pathlib: Path(s) drops "." and empty components of s.
PathOf(raw) == SelectSeq(raw, LAMBDA c : c # "." /\ c # "")

\* A plausible slip: one .parent only (the scripts directory).
ProjectRootOneUp == Parent(ScriptFile)

\* main line 60.
ProjectRoot == Parent(Parent(ScriptFile))

\* main line 61.
DefaultPng == Join(Join(ProjectRoot, "assets"), "app-logo-color.png")

\* main line 62.
DefaultIco == Join(Join(ProjectRoot, "assets"), "app-icon.ico")

\* main lines 65-66: sys.argv[0] is the script, so argv[1] is the first word.
PngPathFor(args) == IF Len(args) > 0 THEN PathOf(args[1]) ELSE DefaultPng

\* main lines 67-68.
IcoPathFor(args) == IF Len(args) > 1 THEN PathOf(args[2]) ELSE DefaultIco

\* Every path a run can name.
Paths == {DefaultPng, DefaultIco} \cup { PathOf(r) : r \in RawArgs }

\* A plausible slip: no validation of the input path.
ExistsAlways(f, p) == TRUE

\* main line 71: Path.exists().
Exists(f, p) == f[p] # "absent"

\* ---------------------------------------------------------------- images

Dims == { <<512, 512>>, <<300, 100>> }

Modes == {"RGBA", "RGB"}

\* What Image.open can return: a lazily loaded image file.
Images == [size : Dims, mode : Modes, frames : {1, 2}, lazy : {TRUE}]

NoImg == [size |-> <<0, 0>>, mode |-> "none", frames |-> 0, lazy |-> FALSE]

\* A plausible slip: Image.thumbnail semantics, which keep the aspect ratio.
ResizeKeepAspect(im, size) ==
    LET w == im.size[1]
        h == im.size[2]
    IN  IF w * size[2] >= h * size[1]
        THEN [im EXCEPT !.size = <<size[1], (h * size[1]) \div w>>, !.lazy = FALSE]
        ELSE [im EXCEPT !.size = <<(w * size[2]) \div h, size[2]>>, !.lazy = FALSE]

\* create_icon line 34: img.resize(size, LANCZOS) returns a new image of
\* exactly the requested size.
Resize(im, size) == [im EXCEPT !.size = size, !.lazy = FALSE]

\* create_icon line 29: img.convert('RGBA').
ConvertRGBA(im) == [im EXCEPT !.mode = "RGBA", !.lazy = FALSE]

\* ------------------------------------------------------------ exceptions

NoExc == [cls |-> "none", file |-> <<>>]

\* Image.open line 25: the file cannot be opened or is not an image.
OpenErrors(f, p) ==
    IF f[p] = "absent"
    THEN { [cls |-> "FileNotFoundError", file |-> p] }
    ELSE { [cls |-> "UnidentifiedImageError", file |-> p],
           [cls |-> "PermissionError", file |-> p] }

\* Pixel data is decoded lazily, by the first call that needs it (convert at
\* line 29, else the first resize at line 34): truncated or broken data, or
\* no memory for the decoded image.
LoadErrors == { [cls |-> "OSError", file |-> <<>>], [cls |-> "MemoryError", file |-> <<>>] }

\* img.resize line 34 itself.
ResizeErrors == { [cls |-> "MemoryError", file |-> <<>>] }

\* save lines 38-43: the target cannot be opened for writing, or writing or
\* encoding fails.
SaveErrors(p) == { [cls |-> "PermissionError", file |-> p], [cls |-> "OSError", file |-> <<>>] }

\* Path(ico_path).stat() line 49.
StatErrors(p) == { [cls |-> "FileNotFoundError", file |-> p] }

\* Classes derived from Exception among those the calls raise.
ExceptionClasses ==
    {"FileNotFoundError", "UnidentifiedImageError", "PermissionError",
     "OSError", "MemoryError"}

\* A plausible slip: "except OSError", which lets MemoryError through.
CatchesOSErrorOnly(e) ==
    e.cls \in {"FileNotFoundError", "UnidentifiedImageError", "PermissionError", "OSError"}

\* A plausible slip: "except UnidentifiedImageError" only.
CatchesImageErrorOnly(e) == e.cls = "UnidentifiedImageError"

\* create_icon line 54: except Exception as e.
Catches(e) == e.cls \in ExceptionClasses

\* -------------------------------------------------------------- messages

Msg(t) == [text |-> t, cause |-> NoExc]

\* A plausible slip: the handler reports success.
ExceptReturnTrue == "True"

\* create_icon line 56.
ExceptReturn == "False"

\* create_icon lines 54-56: what the handler prints and returns; the place
\* that raised does not enter into it.
ExceptHandler(e) ==
    [line |-> [text |-> "Error creating icon", cause |-> e], ret |-> ExceptReturn]

\* A plausible slip: exit code 0 whatever create_icon returned.
ExitCodeAlwaysZero(r) == 0

\* main lines 82-85.
ExitCodeFor(r) == IF r = "True" THEN 0 ELSE 1

\* A plausible slip: append_images given the whole list, the primary included.
SaveArgsAll(images, szs) ==
    [primary |-> images[1], sizes |-> szs, append_images |-> images]

\* create_icon lines 38-43: the arguments of the one save call.
SaveArgs(images, szs) ==
    [primary |-> images[1], sizes |-> szs, append_images |-> Tail(images)]

\* ImageFile.load: a single-frame file opened by Pillow is closed once its
\* frame is read; a multi-frame file stays open for seek().
HandleAfterLoad(im, h) == IF im.frames = 1 THEN "closed" ELSE h

\* The object that owns the handle is no longer referenced.
Dropped(h) == IF h = "open" THEN "unreachable" ELSE h

\* ------------------------------------------------------------------ Init

ArgLists == UNION { [1..n -> RawArgs] : n \in 0..MaxArgs }

Init ==
    /\ pc = "import"
    /\ pillow \in BOOLEAN
    /\ argv \in ArgLists
    /\ fs \in [Paths -> {"absent", "file"}]
    /\ png_path = <<>>
    /\ ico_path = <<>>
    /\ img = NoImg
    /\ icon_images = <<>>
    /\ saveCalls = <<>>
    /\ exc = NoExc
    /\ ret = "none"
    /\ out = <<>>
    /\ exitCode = -1
    /\ srcHandle = "none"
    /\ dstHandle = "none"
    /\ decodeTried = FALSE
    /\ uncaught = FALSE
    /\ raisedAt = "none"

\* --------------------------------------------------------------- actions

\* Lines 10-15: the import guard.
Import ==
    /\ pc = "import"
    /\ IF pillow
       THEN /\ pc' = "main"
            /\ UNCHANGED <<out, exitCode>>
       ELSE /\ out' = out \o << Msg("Error: Pillow library not found"),
                                Msg("Install with: pip install Pillow") >>
            /\ exitCode' = 1
            /\ pc' = "exited"
    /\ UNCHANGED <<raisedAt, pillow, argv, fs, png_path, ico_path, img, icon_images,
                   saveCalls, exc, ret, srcHandle, dstHandle, decodeTried, uncaught>>

\* main lines 59-68.
ResolvePaths ==
    /\ pc = "main"
    /\ png_path' = PngPathFor(argv)
    /\ ico_path' = IcoPathFor(argv)
    /\ pc' = "validate"
    /\ UNCHANGED <<raisedAt, pillow, argv, fs, img, icon_images, saveCalls, exc, ret, out,
                   exitCode, srcHandle, dstHandle, decodeTried, uncaught>>

\* main lines 70-80: the input check, then the banner and the call.
Validate ==
    /\ pc = "validate"
    /\ IF ~Exists(fs, png_path)
       THEN /\ out' = out \o << Msg("Error: PNG file not found"), Msg("Usage") >>
            /\ exitCode' = 1
            /\ pc' = "exited"
       ELSE /\ out' = Append(out, Msg("Creating Windows icon..."))
            /\ pc' = "open"
            /\ UNCHANGED exitCode
    /\ UNCHANGED <<raisedAt, pillow, argv, fs, png_path, ico_path, img, icon_images,
                   saveCalls, exc, ret, srcHandle, dstHandle, decodeTried, uncaught>>

\* create_icon line 25: Image.open(png_path).  On failure Pillow closes the
\* file it opened, if it got as far as opening it.
Open ==
    /\ pc = "open"
    /\ decodeTried' = TRUE
    /\ \/ /\ fs[png_path] # "absent"
          /\ \E im \in Images : img' = im
          /\ srcHandle' = "open"
          /\ pc' = "mode"
          /\ UNCHANGED <<exc, raisedAt>>
       \/ /\ \E e \in OpenErrors(fs, png_path) :
                /\ exc' = e
                /\ srcHandle' = IF e.cls = "UnidentifiedImageError" THEN "closed" ELSE "none"
          /\ raisedAt' = "open"
          /\ pc' = "except"
          /\ UNCHANGED img
    /\ UNCHANGED <<pillow, argv, fs, png_path, ico_path, icon_images, saveCalls,
                   ret, out, exitCode, dstHandle, uncaught>>

\* create_icon lines 28-29.  convert() loads the pixel data; img is rebound
\* to the converted copy, so the opened image file is no longer referenced.
Convert ==
    /\ pc = "mode"
    /\ IF img.mode # "RGBA"
       THEN \/ /\ img' = ConvertRGBA(img)
               /\ srcHandle' = Dropped(HandleAfterLoad(img, srcHandle))
               /\ pc' = "resize"
               /\ UNCHANGED <<exc, raisedAt>>
            \/ /\ \E e \in LoadErrors : exc' = e
               /\ \E h \in {srcHandle, "closed"} : srcHandle' = h
               /\ raisedAt' = "load"
               /\ pc' = "except"
               /\ UNCHANGED img
       ELSE /\ pc' = "resize"
            /\ UNCHANGED <<img, srcHandle, exc, raisedAt>>
    /\ UNCHANGED <<pillow, argv, fs, png_path, ico_path, icon_images, saveCalls,
                   ret, out, exitCode, dstHandle, decodeTried, uncaught>>

\* create_icon lines 33-35: one iteration of the loop.  resize() of an
\* image whose pixel data is not read yet loads it first.
ResizeStep ==
    /\ pc = "resize"
    /\ Len(icon_images) < Len(sizes)
    /\ \/ /\ icon_images' = Append(icon_images, Resize(img, sizes[Len(icon_images) + 1]))
          /\ img' = [img EXCEPT !.lazy = FALSE]
          /\ srcHandle' = IF img.lazy THEN HandleAfterLoad(img, srcHandle) ELSE srcHandle
          /\ pc' = IF Len(icon_images) + 1 = Len(sizes) THEN "save" ELSE "resize"
          /\ UNCHANGED <<exc, raisedAt>>
       \/ /\ img.lazy
          /\ \E e \in LoadErrors : exc' = e
          /\ \E h \in {srcHandle, "closed"} : srcHandle' = h
          /\ raisedAt' = "load"
          /\ pc' = "except"
          /\ UNCHANGED <<img, icon_images>>
       \/ /\ \E e \in ResizeErrors : exc' = e
          /\ srcHandle' = IF img.lazy THEN HandleAfterLoad(img, srcHandle) ELSE srcHandle
          /\ raisedAt' = "resize"
          /\ pc' = "except"
          /\ UNCHANGED <<img, icon_images>>
    /\ UNCHANGED <<pillow, argv, fs, png_path, ico_path, saveCalls, ret, out,
                   exitCode, dstHandle, decodeTried, uncaught>>

\* create_icon lines 38-43: the save call.  Pillow opens the target, writes
\* the container and closes the target whether or not writing failed.
Save ==
    /\ pc = "save"
    /\ saveCalls' = Append(saveCalls, SaveArgs(icon_images, sizes))
    /\ \/ /\ fs' = [fs EXCEPT ![ico_path] = "ico"]
          /\ dstHandle' = "closed"
          /\ pc' = "report"
          /\ UNCHANGED <<exc, raisedAt>>
       \/ /\ \E e \in SaveErrors(ico_path) :
                /\ exc' = e
                /\ IF e.cls = "PermissionError"
                   THEN UNCHANGED <<fs, dstHandle>>
                   ELSE /\ \E left \in {fs[ico_path], "partial"} :
                              fs' = [fs EXCEPT ![ico_path] = left]
                        /\ dstHandle' = "closed"
          /\ raisedAt' = "save"
          /\ pc' = "except"
    /\ UNCHANGED <<pillow, argv, png_path, ico_path, img, icon_images, ret, out,
                   exitCode, srcHandle, decodeTried, uncaught>>

\* create_icon lines 45-46.
Report ==
    /\ pc = "report"
    /\ out' = out \o << Msg("Icon created successfully"), Msg("Sizes included") >>
    /\ pc' = "stat"
    /\ UNCHANGED <<raisedAt, pillow, argv, fs, png_path, ico_path, img, icon_images,
                   saveCalls, exc, ret, exitCode, srcHandle, dstHandle,
                   decodeTried, uncaught>>

\* A plausible slip: the size query guarded on its own, its failure ignored.
StatIgnoresFailure ==
    /\ pc = "stat"
    /\ \/ /\ out' = Append(out, Msg("File size"))
          /\ UNCHANGED <<exc, raisedAt>>
       \/ /\ \E e \in StatErrors(ico_path) : exc' = e
          /\ raisedAt' = "stat"
          /\ UNCHANGED out
    /\ ret' = "True"
    /\ srcHandle' = Dropped(srcHandle)
    /\ pc' = "returned"
    /\ UNCHANGED <<pillow, argv, fs, png_path, ico_path, img, icon_images,
                   saveCalls, exitCode, dstHandle, decodeTried, uncaught>>

\* create_icon lines 49-52: the size query, its line, return True.  The
\* frame's locals go with the return.
Stat ==
    /\ pc = "stat"
    /\ \/ /\ out' = Append(out, Msg("File size"))
          /\ ret' = "True"
          /\ srcHandle' = Dropped(srcHandle)
          /\ pc' = "returned"
          /\ UNCHANGED <<exc, raisedAt>>
       \/ /\ \E e \in StatErrors(ico_path) : exc' = e
          /\ raisedAt' = "stat"
          /\ pc' = "except"
          /\ UNCHANGED <<out, ret, srcHandle>>
    /\ UNCHANGED <<pillow, argv, fs, png_path, ico_path, img, icon_images,
                   saveCalls, exitCode, dstHandle, decodeTried, uncaught>>

\* create_icon lines 54-56: the handler.  An exception it does not catch
\* leaves main as a traceback, and the interpreter exits with code 1.
Except ==
    /\ pc = "except"
    /\ IF Catches(exc)
       THEN /\ out' = Append(out, ExceptHandler(exc).line)
            /\ ret' = ExceptHandler(exc).ret
            /\ srcHandle' = Dropped(srcHandle)
            /\ pc' = "returned"
            /\ UNCHANGED <<exitCode, uncaught>>
       ELSE /\ out' = Append(out, [text |-> "Traceback", cause |-> exc])
            /\ uncaught' = TRUE
            /\ exitCode' = 1
            /\ srcHandle' = IF srcHandle = "none" THEN "none" ELSE "closed"
            /\ pc' = "exited"
            /\ UNCHANGED ret
    /\ UNCHANGED <<raisedAt, pillow, argv, fs, png_path, ico_path, img, icon_images,
                   saveCalls, exc, dstHandle, decodeTried>>

\* main lines 82-85.  The process ends, and with it every handle it held.
Exit ==
    /\ pc = "returned"
    /\ exitCode' = ExitCodeFor(ret)
    /\ srcHandle' = IF srcHandle = "none" THEN "none" ELSE "closed"
    /\ pc' = "exited"
    /\ UNCHANGED <<raisedAt, pillow, argv, fs, png_path, ico_path, img, icon_images,
                   saveCalls, exc, ret, out, dstHandle, decodeTried, uncaught>>

\* The interpreter finalizes an unreferenced image file at a time of its
\* choosing, which closes the file: nothing in lines 23-56 closes it.
Finalize ==
    /\ srcHandle = "unreachable"
    /\ srcHandle' = "closed"
    /\ UNCHANGED <<raisedAt, pc, pillow, argv, fs, png_path, ico_path, img, icon_images,
                   saveCalls, exc, ret, out, exitCode, dstHandle, decodeTried,
                   uncaught>>

Next ==
    \/ Import
    \/ ResolvePaths
    \/ Validate
    \/ Open
    \/ Convert
    \/ ResizeStep
    \/ Save
    \/ Report
    \/ Stat
    \/ Except
    \/ Exit
    \/ Finalize

Spec == Init /\ [][Next]_vars

\* ---------------------------------------------------------------- claims

\* The six icon dimensions, written out.
IconDims == << <<256, 256>>, <<128, 128>>, <<64, 64>>, <<48, 48>>, <<32, 32>>, <<16, 16>> >>

\* The five dimensions that follow the first.
RestDims == << <<128, 128>>, <<64, 64>>, <<48, 48>>, <<32, 32>>, <<16, 16>> >>

Finished == pc \in {"returned", "exited"}

Printed(t) == \E i \in 1..Len(out) : out[i].text = t

\* No file has been created or modified by the run.
NothingWritten == \A p \in Paths : fs[p] \in {"absent", "file"}

\* The run found no file at the source path it resolved.
SourceMissing ==
    /\ pc \notin {"import", "main", "validate"}
    /\ png_path \in Paths
    /\ fs[png_path] = "absent"

\* The exception was raised while opening or decoding the source.
DecodeFailed == raisedAt \in {"open", "load"}

\* C1: every variant built so far has exactly the dimensions of its entry of
\* the size list, in order, whatever the source image's size and mode, and
\* once the loop is through there are exactly six: 256, 128, 64, 48, 32, 16.
C1_SixExactVariants ==
    /\ Len(icon_images) <= 6
    /\ \A i \in 1..Len(icon_images) :
          /\ icon_images[i].size = IconDims[i]
          /\ icon_images[i].mode = "RGBA"
    /\ (pc \in {"save", "report", "stat"} \/ saveCalls # <<>>) => Len(icon_images) = 6

C1_Witness ==
    /\ pc = "save"
    /\ img.size = <<300, 100>>
    /\ Len(icon_images) = 6

\* C2: a run that has ended has exit code 0 or 1; 0 exactly when the
\* conversion went through (saved, size queried, nothing raised), 1 when
\* Pillow is missing, the source is missing, or any step raised.
C2_ExitCodes ==
    /\ pc = "exited" =>
          /\ exitCode \in {0, 1}
          /\ exitCode = 0 <=>
                /\ ret = "True"
                /\ raisedAt = "none"
                /\ Len(saveCalls) = 1
                /\ fs[ico_path] = "ico"
          /\ ~pillow => exitCode = 1
          /\ SourceMissing => exitCode = 1
          /\ raisedAt # "none" => exitCode = 1
    /\ pc # "exited" => exitCode = -1

C2_Witness ==
    /\ pc = "exited"
    /\ exitCode = 1
    /\ raisedAt = "load"

\* C3: with no file at the source path the run ends with the "PNG file not
\* found" message and exit code 1, not with the handler's "Error creating
\* icon"; Image.open is never called and no file is written.
C3_SourceNotFound ==
    SourceMissing =>
        /\ pc = "exited"
        /\ exitCode = 1
        /\ out = << Msg("Error: PNG file not found"), Msg("Usage") >>
        /\ ~Printed("Error creating icon")
        /\ ~decodeTried
        /\ raisedAt = "none"
        /\ saveCalls = <<>>
        /\ NothingWritten

C3_Witness ==
    /\ SourceMissing
    /\ pc = "exited"
    /\ Len(argv) = 2

\* The source's data is corrupt or unsupported: open cannot identify it, or
\* the lazy load finds it truncated or broken.
CorruptSource ==
    \/ raisedAt = "open" /\ exc.cls = "UnidentifiedImageError"
    \/ raisedAt = "load" /\ exc.cls = "OSError"

\* The kind of a failure as the caller of create_icon sees it: the message
\* printed and the value returned, apart from the cause the message carries.
KindOf(line, r) == [text |-> line.text, ret |-> r]

\* The kinds a failure of resize or of save can end in.
EncodeKinds ==
    { KindOf(ExceptHandler(e).line, ExceptHandler(e).ret) :
        e \in ResizeErrors \cup SaveErrors(ico_path) }

\* C4 as stated: a decode failure ends in a failure of its own kind, which a
\* failure of resize or encode cannot end in.
C4_DecodeErrorKind ==
    (CorruptSource /\ pc = "returned") => KindOf(out[Len(out)], ret) \notin EncodeKinds

\* C4 as amended: when the source exists and cannot be decoded, create_icon
\* returns False with the one generic "Error creating icon" report that
\* every failure gets, the exit code is 1, save is never called and no file
\* is written.
C4_DecodeFailure ==
    DecodeFailed =>
        /\ saveCalls = <<>>
        /\ NothingWritten
        /\ dstHandle = "none"
        /\ exc \in OpenErrors(fs, png_path) \cup LoadErrors
        /\ Finished =>
              /\ ret = "False"
              /\ out[Len(out)] = [text |-> "Error creating icon", cause |-> exc]
        /\ pc = "exited" => exitCode = 1

C4_Witness ==
    /\ DecodeFailed
    /\ CorruptSource
    /\ raisedAt = "load"
    /\ pc = "exited"

\* C5: once resolved, the paths are the defaults under the directory two
\* levels up from the script file when no argument is given; the first
\* argument replaces the source, the second the destination.
C5_PathResolution ==
    (pillow /\ pc \notin {"import", "main"}) =>
        /\ Len(argv) = 0 =>
              /\ png_path = <<"home", "repo", "assets", "app-logo-color.png">>
              /\ ico_path = <<"home", "repo", "assets", "app-icon.ico">>
        /\ Len(argv) = 1 =>
              /\ png_path = PathOf(argv[1])
              /\ ico_path = <<"home", "repo", "assets", "app-icon.ico">>
        /\ Len(argv) = 2 =>
              /\ png_path = PathOf(argv[1])
              /\ ico_path = PathOf(argv[2])

C5_Witness ==
    /\ pc = "validate"
    /\ Len(argv) = 1
    /\ argv[1] = <<".", "in.png">>
    /\ png_path = <<"in.png">>

C7_HandlesReleased ==
    Finished =>
        /\ srcHandle \notin {"open", "unreachable"}
        /\ dstHandle # "open"

\* C8: when save raises, whatever it left at the destination, create_icon
\* returns False, no success line is printed and the exit code is 1.
C8_EncodeFailureIsFailure ==
    raisedAt = "save" =>
        /\ ret # "True"
        /\ ~Printed("Icon created successfully")
        /\ Finished => ret = "False"
        /\ pc = "exited" => exitCode = 1

C8_Witness ==
    /\ raisedAt = "save"
    /\ fs[ico_path] = "partial"
    /\ pc = "exited"

\* The sizes of a sequence of images.
SizesOf(images) == [i \in 1..Len(images) |-> images[i].size]

\* C9: save is called at most once, and only with the source opened,
\* decoded, in RGBA, and all six variants built; its primary image is the
\* 256x256 variant, append_images are the other five in order, and its
\* sizes argument lists the six dimensions in the order of the images.
C9_EncoderOnce ==
    /\ Len(saveCalls) <= 1
    /\ Len(saveCalls) = 1 =>
          LET call == saveCalls[1]
          IN  /\ decodeTried
              /\ img.mode = "RGBA"
              /\ ~img.lazy
              /\ Len(icon_images) = 6
              /\ call.primary = icon_images[1]
              /\ call.primary.size = <<256, 256>>
              /\ call.append_images = SubSeq(icon_images, 2, 6)
              /\ SizesOf(call.append_images) = RestDims
              /\ call.sizes = IconDims
              /\ SizesOf(<<call.primary>> \o call.append_images) = call.sizes

C9_Witness ==
    /\ Len(saveCalls) = 1
    /\ raisedAt = "save"
    /\ pc = "exited"

\* C10 as stated: whatever reports success, the success line included, comes
\* only after the size query has completed.
C10_SuccessAfterQuery ==
    (Printed("Icon created successfully") \/ ret = "True" \/ exitCode = 0)
        => Printed("File size")

\* C10 as amended: the result True and exit code 0 come only after save and
\* the size query have both completed, with the file written by this run; a
\* failed size query after a completed save gives False and exit code 1 and
\* leaves the written file; the success line is printed before the query.
C10_SuccessResult ==
    /\ (ret = "True" \/ exitCode = 0) =>
          /\ Len(saveCalls) = 1
          /\ fs[ico_path] = "ico"
          /\ raisedAt = "none"
          /\ Printed("File size")
    /\ raisedAt = "stat" =>
          /\ fs[ico_path] = "ico"
          /\ Printed("Icon created successfully")
          /\ ~Printed("File size")
          /\ Finished => ret = "False"
          /\ pc = "exited" => exitCode = 1

C10_Witness ==
    /\ raisedAt = "stat"
    /\ pc = "exited"
    /\ exitCode = 1

====
